---- MODULE Spec2Model ----
(***************************************************************************)
(* Model of coding_app_revised.py: the coding-record normaliser            *)
(* (normalise_row), the QC engine (apply_qc_rules) and the session state   *)
(* (coding_queue, coding_result, coded_data) driven by the start-coding,   *)
(* commit and clear handlers.                                              *)
(*                                                                         *)
(* A row (Python dict) is a function from a set of keys to strings; a      *)
(* missing key is a key outside the function's DOMAIN.  Text is ASCII     *)
(* and the two characters U+0130 and U+0307, which stand in the model as   *)
(* the characters with codes 1 and 2: a character is a one-character       *)
(* string.                                                                 *)
(*                                                                         *)
(* One script run of the application is one action.  A run can be stopped  *)
(* at a yield point (an st.* element call or an access to session_state)   *)
(* when a rerun request is pending, so the handlers take the yield point   *)
(* at which the run ended as a parameter.                                  *)
(***************************************************************************)
EXTENDS Integers, Sequences, FiniteSets, TLC

VARIABLES
  arg, ret, fn,        \* a call of normalise_row / apply_qc_rules: argument object, return value, function
  given,               \* the argument as it was when the call was made (the caller's copy)
  coding_queue,        \* st.session_state.coding_queue
  coding_result,       \* st.session_state.coding_result (None or the pending row)
  coded_data,          \* st.session_state.coded_data, the rows of the DataFrame
  handler,             \* the handler that ran in the last script run
  result,              \* what generate_coding_draft returned in the last script run (None when not called)
  exc,                 \* the exception that ended the last script run, "none" without one
  stopped,             \* the source line at which the last script run ended ("rerun": at its st.rerun()), "end" when it ran through
  msg                  \* the last st.success / st.warning / st.error message of the last script run

vars == <<arg, given, ret, fn, coding_queue, coding_result, coded_data, handler, result, exc, stopped, msg>>

fnvars == <<arg, given, ret, fn>>
session == <<coding_queue, coding_result, coded_data, handler, result, exc, stopped, msg>>

Range(s) == { s[i] : i \in DOMAIN s }

(***************************************************************************)
(* Schema: COLUMNS and ENUMS                                               *)
(***************************************************************************)
COLUMNS ==
  << "rrn", "inclusion_I1", "inclusion_I2", "inclusion_I3", "exclusion_E1", "exclusion_E2",
     "scope_decision", "scope_justification", "literature_type", "geographic_focus", "unit_of_analysis",
     "explicit_definition", "verbatim_definition", "typology_proposed", "typology_details",
     "axis_A", "axis_B", "axis_C", "axis_A_anchor", "axis_B_anchor", "axis_C_anchor",
     "purpose_tokens", "key_findings",
     "participation_level", "participation_evidence",
     "equity_level", "equity_evidence",
     "env_level", "env_evidence",
     "equity_tags", "engagement_tags",
     "evidence_quality", "inferred", "notes", "split_case",
     "original_text" >>

ENUMS ==
  [ inclusion_I1 |-> <<"Yes", "No", "NA">>,
    inclusion_I2 |-> <<"Yes", "No", "NA">>,
    inclusion_I3 |-> <<"Yes", "No", "NA">>,
    exclusion_E1 |-> <<"Yes", "No">>,
    exclusion_E2 |-> <<"Yes", "No">>,
    scope_decision |-> <<"Include", "Exclude">>,
    unit_of_analysis |-> <<"Village/community", "Cluster of villages", "Municipality/Region",
                           "Household/enterprise", "Programme/policy", "Other">>,
    explicit_definition |-> <<"Yes", "Partial", "No">>,
    typology_proposed |-> <<"Yes", "Partial", "No">>,
    axis_A |-> <<"A1 State-led", "A2 Co-managed", "A3 Community-led", "NA">>,
    axis_B |-> <<"B1 Heritage-led", "B2 Nature-led", "B3 Mixed-portfolio",
                 "B4 Commodified/amenities-led", "NA">>,
    axis_C |-> <<"C1 Claimed/aspirational", "C2 Process-based/criteria", "C3 Measured/verified", "NA">>,
    participation_level |-> <<"1", "2", "3", "NA">>,
    equity_level |-> <<"1", "2", "3", "NA">>,
    env_level |-> <<"1", "2", "3", "NA">>,
    evidence_quality |-> <<"Low", "Moderate", "High">>,
    inferred |-> <<"Yes", "No">>,
    split_case |-> <<"Yes", "No">> ]

(***************************************************************************)
(* Python dict and str primitives used by the code                         *)
(***************************************************************************)
\* row.get(k, d)
Get(row, k, d) == IF k \in DOMAIN row THEN row[k] ELSE d

\* (row.get(k) or d): a missing key and an empty string are both falsy
GetOr(row, k, d) == IF k \in DOMAIN row /\ row[k] # "" THEN row[k] ELSE d

\* row[k] = v
SetItem(row, k, v) == [ x \in (DOMAIN row) \cup {k} |-> IF x = k THEN v ELSE row[x] ]

CharAt(s, i) == SubSeq(s, i, i)

UpperAlpha == "ABCDEFGHIJKLMNOPQRSTUVWXYZ"
LowerAlpha == "abcdefghijklmnopqrstuvwxyz"

\* the case mappings of the ASCII letters
ToLower == [ c \in { CharAt(UpperAlpha, i) : i \in 1..26 } |->
               CharAt(LowerAlpha, CHOOSE i \in 1..26 : CharAt(UpperAlpha, i) = c) ]
ToUpper == [ c \in { CharAt(LowerAlpha, i) : i \in 1..26 } |->
               CharAt(UpperAlpha, CHOOSE i \in 1..26 : CharAt(LowerAlpha, i) = c) ]

\* U+0130, LATIN CAPITAL LETTER I WITH DOT ABOVE, and U+0307, COMBINING DOT
\* ABOVE, written as the characters with codes 1 and 2 (a string of the
\* model holds no character beyond ASCII)
DottedI == ""
CombiningDot == ""

\* str.lower() on one character: U+0130 is the one character whose lower case
\* is two characters long, "i" and U+0307
LowerChar(c) ==
  IF c = DottedI THEN "i" \o CombiningDot
  ELSE IF c \in DOMAIN ToLower THEN ToLower[c] ELSE c

\* str.upper() on one character (U+0130 and U+0307 are their own upper case)
UpperChar(c) == IF c \in DOMAIN ToUpper THEN ToUpper[c] ELSE c

RECURSIVE Lower(_)
\* str.lower()
Lower(s) == IF s = "" THEN "" ELSE LowerChar(CharAt(s, 1)) \o Lower(SubSeq(s, 2, Len(s)))

RECURSIVE Upper(_)
\* str.upper()
Upper(s) == IF s = "" THEN "" ELSE UpperChar(CharAt(s, 1)) \o Upper(SubSeq(s, 2, Len(s)))

\* the control characters VT, FS, GS, RS and US (codes 11, 28, 29, 30, 31), one literal character each
VT == ""
FS == ""
GS == ""
RS == ""
US == ""

\* str.isspace() on an ASCII character
IsSpace(c) == c \in {" ", "\t", "\n", "\r", "\f", VT, FS, GS, RS, US}

RECURSIVE LStrip(_)
\* str.lstrip()
LStrip(s) == IF s # "" /\ IsSpace(CharAt(s, 1)) THEN LStrip(SubSeq(s, 2, Len(s))) ELSE s

RECURSIVE RStrip(_)
\* str.rstrip()
RStrip(s) == IF s # "" /\ IsSpace(CharAt(s, Len(s))) THEN RStrip(SubSeq(s, 1, Len(s) - 1)) ELSE s

\* str.strip(): drop leading and trailing whitespace
Strip(s) == RStrip(LStrip(s))

\* (sub in s)
Contains(sub, s) == \E i \in 1..(Len(s) - Len(sub) + 1) : SubSeq(s, i, i + Len(sub) - 1) = sub

RECURSIVE Join(_, _)
\* sep.join(parts)
Join(sep, parts) ==
  IF parts = <<>> THEN ""
  ELSE IF Len(parts) = 1 THEN parts[1]
  ELSE parts[1] \o sep \o Join(sep, Tail(parts))

(***************************************************************************)
(* normalise_row                                                           *)
(***************************************************************************)
\* variant: the fallback of evidence_quality is "Low"
Fallback_quality_low(col, val) ==
  IF col \in {"axis_A", "axis_B", "axis_C", "participation_level", "equity_level", "env_level"} THEN "NA"
  ELSE IF col \in {"explicit_definition", "typology_proposed"} THEN "No"
  ELSE IF col \in {"inclusion_I1", "inclusion_I2", "inclusion_I3"} THEN "NA"
  ELSE IF col \in {"exclusion_E1", "exclusion_E2"} THEN "No"
  ELSE IF col = "evidence_quality" THEN "Low"
  ELSE IF col \in {"inferred", "split_case"} THEN "No"
  ELSE IF col = "scope_decision" THEN "Include"
  ELSE IF col = "unit_of_analysis" THEN "Village/community"
  ELSE val

\* the fallback chain of normalise_row; val is kept when no branch matches
Fallback(col, val) ==
  IF col \in {"axis_A", "axis_B", "axis_C", "participation_level", "equity_level", "env_level"} THEN "NA"
  ELSE IF col \in {"explicit_definition", "typology_proposed"} THEN "No"
  ELSE IF col \in {"inclusion_I1", "inclusion_I2", "inclusion_I3"} THEN "NA"
  ELSE IF col \in {"exclusion_E1", "exclusion_E2"} THEN "No"
  ELSE IF col = "evidence_quality" THEN "Moderate"
  ELSE IF col \in {"inferred", "split_case"} THEN "No"
  ELSE IF col = "scope_decision" THEN "Include"
  ELSE IF col = "unit_of_analysis" THEN "Village/community"
  ELSE val

\* variant: loops over the keys of the given row instead of COLUMNS
normalise_row_given_keys(row) ==
  [ col \in DOMAIN row |->
      LET val == row[col]
      IN  IF col \in DOMAIN ENUMS /\ val \notin Range(ENUMS[col])
          THEN Fallback(col, val)
          ELSE val ]

\* variant: loops over the keys of ENUMS instead of COLUMNS
normalise_row_enums_only(row) ==
  [ col \in DOMAIN ENUMS |->
      LET val == Get(row, col, "")
      IN  IF val \notin Range(ENUMS[col]) THEN Fallback(col, val) ELSE val ]

normalise_row(row) ==
  [ col \in Range(COLUMNS) |->
      LET val == Get(row, col, "")
      IN  IF col \in DOMAIN ENUMS /\ val \notin Range(ENUMS[col])
          THEN Fallback(col, val)
          ELSE val ]

(***************************************************************************)
(* apply_qc_rules: the four rules thread the pair (row, notes)             *)
(***************************************************************************)
MinTypologyLen == 40

\* variant: compares the evidence with "NA" case-sensitively
EvidenceGate_case_sensitive(st, var) ==
  LET lvl == Strip(GetOr(st.row, var \o "_level", "NA"))
      ev  == Strip(GetOr(st.row, var \o "_evidence", ""))
  IN  IF lvl \in {"1", "2", "3"} /\ (ev = "" \/ ev = "NA")
      THEN [ row   |-> SetItem(st.row, var \o "_level", "NA"),
             notes |-> Append(st.notes, "Auto-NA " \o var \o " (no evidence).") ]
      ELSE st

\* rule 1, one iteration of the loop over participation / equity / env
EvidenceGate(st, var) ==
  LET lvl == Strip(GetOr(st.row, var \o "_level", "NA"))
      ev  == Strip(GetOr(st.row, var \o "_evidence", ""))
  IN  IF lvl \in {"1", "2", "3"} /\ (ev = "" \/ Upper(ev) = "NA")
      THEN [ row   |-> SetItem(st.row, var \o "_level", "NA"),
             notes |-> Append(st.notes, "Auto-NA " \o var \o " (no evidence).") ]
      ELSE st

Rule1(st) == EvidenceGate(EvidenceGate(EvidenceGate(st, "participation"), "equity"), "env")

\* rule 2, typology
Rule2(st) ==
  IF Get(st.row, "typology_proposed", "") = "Yes"
  THEN LET td == Lower(GetOr(st.row, "typology_details", ""))
       IN  IF Contains("not explicit", td) \/ Contains("tidak eksplisit", td) \/ Len(td) < MinTypologyLen
           THEN [ row   |-> SetItem(st.row, "typology_proposed", "Partial"),
                  notes |-> Append(st.notes, "Typology set to Partial (criteria unclear).") ]
           ELSE st
  ELSE st

\* variant: the cascade resets the axes but not the outcome levels
Rule3_axes_only(st) ==
  IF Get(st.row, "scope_decision", "") = "Exclude"
  THEN LET r1 == [ x \in (DOMAIN st.row) \cup {"axis_A", "axis_B", "axis_C"} |->
                     IF x \in {"axis_A", "axis_B", "axis_C"} THEN "NA" ELSE st.row[x] ]
       IN  [ row   |-> SetItem(r1, "evidence_quality", GetOr(r1, "evidence_quality", "Low")),
             notes |-> Append(st.notes, "Excluded (scope): axes & outcomes set to NA.") ]
  ELSE st

\* variant: the cascade always writes evidence_quality "Low"
Rule3_force_low(st) ==
  IF Get(st.row, "scope_decision", "") = "Exclude"
  THEN LET r1 == [ x \in (DOMAIN st.row) \cup
                         {"axis_A", "axis_B", "axis_C", "participation_level", "equity_level", "env_level"} |->
                     IF x \in {"axis_A", "axis_B", "axis_C", "participation_level", "equity_level", "env_level"}
                     THEN "NA" ELSE st.row[x] ]
       IN  [ row   |-> SetItem(r1, "evidence_quality", "Low"),
             notes |-> Append(st.notes, "Excluded (scope): axes & outcomes set to NA.") ]
  ELSE st

\* rule 3, scope cascade
Rule3(st) ==
  IF Get(st.row, "scope_decision", "") = "Exclude"
  THEN LET r1 == [ x \in (DOMAIN st.row) \cup
                         {"axis_A", "axis_B", "axis_C", "participation_level", "equity_level", "env_level"} |->
                     IF x \in {"axis_A", "axis_B", "axis_C", "participation_level", "equity_level", "env_level"}
                     THEN "NA" ELSE st.row[x] ]
       IN  [ row   |-> SetItem(r1, "evidence_quality", GetOr(r1, "evidence_quality", "Low")),
             notes |-> Append(st.notes, "Excluded (scope): axes & outcomes set to NA.") ]
  ELSE st

\* variant: an axis without anchor is reset to "NA"
AnchorCheck_invalidate(st, ax) ==
  LET axis == Get(st.row, "axis_" \o ax, "")
  IN  IF axis # "" /\ axis # "NA" /\ Strip(GetOr(st.row, "axis_" \o ax \o "_anchor", "")) = ""
      THEN [ row   |-> SetItem(st.row, "axis_" \o ax, "NA"),
             notes |-> Append(st.notes, "Axis " \o ax \o " lacks anchor.") ]
      ELSE st

\* rule 4, one iteration of the loop over the axes A / B / C
AnchorCheck(st, ax) ==
  LET axis == Get(st.row, "axis_" \o ax, "")
  IN  IF axis # "" /\ axis # "NA" /\ Strip(GetOr(st.row, "axis_" \o ax \o "_anchor", "")) = ""
      THEN [ row |-> st.row, notes |-> Append(st.notes, "Axis " \o ax \o " lacks anchor.") ]
      ELSE st

Rule4(st) == AnchorCheck(AnchorCheck(AnchorCheck(st, "A"), "B"), "C")

\* variant: the new notes replace the old text
NotesText_overwrite(old, notes) == Strip(Join("; ", notes))

\* the notes text written by "Append notes"
NotesText(old, notes) == Strip(old \o (IF old # "" THEN " " ELSE "") \o Join("; ", notes))

AppendNotes(st) ==
  IF st.notes # <<>>
  THEN SetItem(st.row, "notes", NotesText(Get(st.row, "notes", ""), st.notes))
  ELSE st.row

\* the list of notes collected by the four rules
QcNotes(row) == Rule4(Rule3(Rule2(Rule1([ row |-> row, notes |-> <<>> ])))).notes

\* the row object after the four rules and "Append notes": the rules write into the row they are given
qc_in_place(row) == AppendNotes(Rule4(Rule3(Rule2(Rule1([ row |-> row, notes |-> <<>> ])))))

\* the return value: a new record made by normalise_row from the rewritten row
apply_qc_rules(row) == normalise_row(qc_in_place(row))

(***************************************************************************)
(* Input rows: a base row changed in at most MaxOverrides places           *)
(***************************************************************************)
MaxOverrides == 2

EmptyRow == [ x \in {} |-> "" ]

LongDetails  == "Three classes by governance and ownership rules"
Details40    == "Classes by governance rule and ownership"
Details39    == "Classes by governance rule or ownership"
\* 39 characters, one of them U+0130, without a marker
Details39I   == DottedI \o "stanbul classes by governance or owner"

\* a complete valid row on which no QC rule fires
BaseClean ==
  [ col \in Range(COLUMNS) |->
      CASE col = "inclusion_I1" -> "Yes" [] col = "inclusion_I2" -> "Yes" [] col = "inclusion_I3" -> "NA"
        [] col = "exclusion_E1" -> "No" [] col = "exclusion_E2" -> "No"
        [] col = "scope_decision" -> "Include"
        [] col = "unit_of_analysis" -> "Cluster of villages"
        [] col = "explicit_definition" -> "Partial"
        [] col = "typology_proposed" -> "Yes"
        [] col = "typology_details" -> LongDetails
        [] col = "axis_A" -> "A1 State-led" [] col = "axis_A_anchor" -> "p. 12"
        [] col = "axis_B" -> "B2 Nature-led" [] col = "axis_B_anchor" -> "Fig. 2"
        [] col = "axis_C" -> "C3 Measured/verified" [] col = "axis_C_anchor" -> "s. 3"
        [] col = "participation_level" -> "3" [] col = "participation_evidence" -> "quote p.4"
        [] col = "equity_level" -> "2" [] col = "equity_evidence" -> "quote p.5"
        [] col = "env_level" -> "1" [] col = "env_evidence" -> "quote p.6"
        [] col = "evidence_quality" -> "High"
        [] col = "inferred" -> "Yes" [] col = "split_case" -> "No"
        [] col = "original_text" -> "article"
        [] OTHER -> "" ]

\* a complete valid row on which rules 1, 2 and 4 all fire, with prior notes
BaseFlagged ==
  [ col \in Range(COLUMNS) |->
      CASE col \in {"participation_evidence", "axis_A_anchor", "axis_C_anchor"} -> ""
        [] col = "equity_evidence" -> "na"
        [] col = "env_evidence" -> " "
        [] col = "axis_B_anchor" -> " "
        [] col = "typology_details" -> "Classes are Not Explicit in the text, see discussion p. 9"
        [] col = "evidence_quality" -> "Moderate"
        [] col = "notes" -> "prior note"
        [] OTHER -> BaseClean[col] ]

Bases == { EmptyRow, BaseClean, BaseFlagged }

\* single-key changes: write a value under a key
SetOptions ==
  { <<"participation_level", "1">>, <<"participation_level", "NA">>, <<"participation_level", "high">>,
    <<"participation_evidence", "">>, <<"participation_evidence", " NA ">>, <<"participation_evidence", "quote p.4">>,
    <<"equity_level", "2">>, <<"equity_level", "NA">>,
    <<"equity_evidence", "">>, <<"equity_evidence", "Na">>, <<"equity_evidence", "n/a">>,
    <<"env_level", "3">>, <<"env_level", "">>,
    <<"env_evidence", "">>, <<"env_evidence", "NA">>, <<"env_evidence", "quote p.6">>,
    <<"typology_proposed", "Yes">>, <<"typology_proposed", "Partial">>, <<"typology_proposed", "yes">>,
    <<"typology_details", "yes">>, <<"typology_details", Details39>>, <<"typology_details", Details40>>,
    <<"typology_details", Details39I>>,
    <<"typology_details", "Kelas TIDAK EKSPLISIT; lihat pembahasan pada bagian 4">>,
    <<"scope_decision", "Include">>, <<"scope_decision", "Exclude">>, <<"scope_decision", "exclude">>,
    <<"axis_A", "A3 Community-led">>, <<"axis_A", "NA">>, <<"axis_A", "A9">>,
    <<"axis_A_anchor", "">>, <<"axis_A_anchor", "p. 12">>,
    <<"axis_B", "B1 Heritage-led">>, <<"axis_B_anchor", "">>,
    <<"axis_C", "C1 Claimed/aspirational">>, <<"axis_C_anchor", "\t">>,
    <<"evidence_quality", "">>, <<"evidence_quality", "Low">>, <<"evidence_quality", "bogus">>,
    <<"notes", "">>, <<"notes", " lead">>, <<"notes", "trail ">>, <<"notes", " ">>,
    <<"participation_evidence", VT \o "na" \o US>>, <<"axis_A_anchor", FS \o GS>>, <<"notes", RS \o "prior">>,
    <<"inclusion_I1", "maybe">>, <<"exclusion_E1", "Yes">>, <<"exclusion_E2", "?">>,
    <<"unit_of_analysis", "Town">>, <<"explicit_definition", "Maybe">>,
    <<"inferred", "y">>, <<"split_case", "Yes">>,
    <<"rrn", "R1">>, <<"confidence", "0.9">> }

\* single-key changes: remove a key
DelOptions ==
  { "participation_level", "equity_evidence", "typology_details", "scope_decision",
    "axis_B", "axis_C_anchor", "evidence_quality", "notes", "inclusion_I2", "key_findings" }

DelItem(row, k) == [ x \in (DOMAIN row) \ {k} |-> row[x] ]

RECURSIVE InputRows(_)
InputRows(k) ==
  IF k = 0 THEN Bases
  ELSE LET P == InputRows(k - 1)
       IN  P \cup { SetItem(r, o[1], o[2]) : r \in P, o \in SetOptions }
             \cup { DelItem(r, f) : r \in P, f \in DelOptions }

(***************************************************************************)
(* Calls of the two pure functions on an input row                         *)
(***************************************************************************)
\* None: coding_result is only ever tested for truthiness, and None and {} are both falsy
None == [ x \in {} |-> "" ]

\* generate_coding_draft returned None, or the run did not call it
NoResult == [ ok |-> FALSE, rows |-> <<>> ]

\* session state initialisation
InitSession ==
  /\ coding_queue = <<>>
  /\ coding_result = None
  /\ coded_data = <<>>
  /\ handler = "none"
  /\ result = NoResult
  /\ exc = "none"
  /\ stopped = "end"
  /\ msg = "none"

InitFn ==
  /\ arg \in InputRows(MaxOverrides)
  /\ given = arg
  /\ ret = EmptyRow
  /\ fn = "none"
  /\ InitSession

CallNormalise ==
  /\ fn = "none"
  /\ ret' = normalise_row(arg)
  /\ fn' = "normalise_row"
  /\ UNCHANGED <<arg, given, session>>

CallApplyQc ==
  /\ fn = "none"
  /\ ret' = apply_qc_rules(arg)
  /\ arg' = qc_in_place(arg)
  /\ fn' = "apply_qc_rules"
  /\ UNCHANGED <<given, session>>

NextFn == CallNormalise \/ CallApplyQc

SpecFn == InitFn /\ [][NextFn]_vars

(***************************************************************************)
(* The application: start-coding, commit and clear on the session state    *)
(***************************************************************************)
MaxRows == 2      \* rows in one draft
MaxData == 2      \* rows in coded_data

Article == "article"

\* an Included raw row that every QC rule but the scope cascade flags
RowFlagged == DelItem(SetItem(BaseFlagged, "notes", " lead"), "original_text")

\* an Excluded raw row whose evidence_quality is outside the allowed set
RowExcludedInvalid ==
  [ scope_decision |-> "Exclude", axis_B |-> "B2 Nature-led", participation_level |-> "3",
    participation_evidence |-> "quote p.4", evidence_quality |-> "bogus", confidence |-> "0.9" ]

\* the same Excluded raw row without the key evidence_quality
RowExcludedMissing == DelItem(RowExcludedInvalid, "evidence_quality")

\* raw candidate rows the Draft Producer may yield
RawRows == { RowFlagged, RowExcludedInvalid, RowExcludedMissing }

RECURSIVE SeqsUpTo(_, _)
SeqsUpTo(S, n) ==
  IF n = 0 THEN { <<>> }
  ELSE LET P == SeqsUpTo(S, n - 1)
       IN  P \cup { Append(q, x) : q \in { p \in P : Len(p) = n - 1 }, x \in S }

\* variant: the body of the loop calls apply_qc_rules on the raw row
QueueRow_without_normalise(r, article_input) ==
  apply_qc_rules(SetItem(r, "original_text", article_input))

\* the body of the loop of the start-coding handler (lines 414-416)
QueueRow(r, article_input) ==
  apply_qc_rules(normalise_row(SetItem(r, "original_text", article_input)))

\* the loop of the start-coding handler over the rows of the draft
RECURSIVE BuildQueue(_, _)
BuildQueue(rows, article_input) ==
  IF rows = <<>> THEN <<>>
  ELSE << QueueRow(Head(rows), article_input) >> \o BuildQueue(Tail(rows), article_input)

\* where a start-coding run without article text can end: stopped by a rerun
\* request at st.warning of line 406, stopped after the warning was shown (at
\* st.markdown of line 425 or at a later element of the script), or at its end
NoTextStops == {"406", "425", "end"}

\* "Mulai Pengodean Otomatis" without article text
StartCodingNoText(stop) ==
  /\ handler' = "start_coding"
  /\ msg' = IF stop = "406" THEN "none" ELSE "warning: no article text"
  /\ exc' = IF stop = "end" THEN "none" ELSE "RerunException"
  /\ stopped' = stop
  /\ result' = NoResult
  /\ UNCHANGED <<coding_queue, coding_result, coded_data, fnvars>>

\* st.warning of line 357: a model of the fallback order answered 429 limit:0
Warning429 == "warning: 429 limit:0, trying next model"

\* the st.error that generate_coding_draft shows before it returns None:
\* configure_genai failed (line 279), the JSON has no list "rows" (line 348),
\* a model call failed otherwise (line 360), every model answered 429 (line 363)
ProducerErrors ==
  { "error: API configuration", "error: JSON structure", "error: model call", "error: all models failed" }

\* "Mulai Pengodean Otomatis" with article text, stopped by a rerun request
\* before generate_coding_draft returns: at st.spinner of line 408, at an
\* st.warning of line 357 or at the st.error the producer is about to show;
\* warned: a model of the fallback order answered 429 limit:0 before (st.warning)
StartCodingStopped(warned) ==
  /\ handler' = "start_coding"
  /\ result' = NoResult
  /\ stopped' = "408"
  /\ exc' = "RerunException"
  /\ msg' = IF warned THEN Warning429 ELSE "none"
  /\ UNCHANGED <<coding_queue, coding_result, coded_data, fnvars>>

\* where a start-coding run whose producer returns None can end once the
\* producer has shown its error: stopped by a rerun request before the error
\* of line 423 is shown (at st.text_area, in the help box or at st.error of
\* line 423), stopped after it was shown (at st.markdown of line 425 or at a
\* later element of the script), or at its end
NoResultStops == {"423", "425", "end"}

\* "Mulai Pengodean Otomatis", generate_coding_draft returns None after the
\* error `last`
StartCodingNoResult(last, stop) ==
  /\ handler' = "start_coding"
  /\ result' = NoResult
  /\ stopped' = stop
  /\ exc' = IF stop = "end" THEN "none" ELSE "RerunException"
  /\ msg' = IF stop = "423" THEN last ELSE "error: no rows / invalid JSON"
  /\ UNCHANGED <<coding_queue, coding_result, coded_data, fnvars>>

\* the drafts the producer may yield: at most MaxRows raw rows
DraftInputs == SeqsUpTo(RawRows, MaxRows)

\* BuildQueue on every draft the producer may yield, tabulated once
Drafts == [ rows \in DraftInputs |-> BuildQueue(rows, Article) ] @@ <<>>

\* where a start-coding run whose producer returned a draft can end: stopped
\* by a rerun request at the write of line 418, at the read or the write of
\* line 419, at st.success of line 420 or at st.caption of line 421 or after
\* it (at st.markdown of line 425 or at a later element of the script: these
\* leave what the stop at line 421 leaves), or at its end
StartStops == {"418", "419 get", "419 set", "420", "421", "end"}

\* "Mulai Pengodean Otomatis", generate_coding_draft returns (rows, used_model);
\* warned: a model of the fallback order answered 429 limit:0 first (st.warning)
StartCoding(rows, warned, stop) ==
  LET q == Drafts[rows]
      shown == IF warned THEN Warning429 ELSE "none"
  IN  /\ handler' = "start_coding"
      /\ result' = [ ok |-> TRUE, rows |-> rows ]
      /\ CASE stop = "418" ->
                /\ UNCHANGED <<coding_queue, coding_result>>
                /\ exc' = "RerunException" /\ stopped' = stop /\ msg' = shown
           [] stop = "419 get" ->
                /\ coding_queue' = q
                /\ UNCHANGED coding_result
                /\ exc' = "RerunException" /\ stopped' = stop /\ msg' = shown
           [] stop \in {"419 set", "420", "421", "end"} /\ q = <<>> ->
                \* coding_queue.pop(0) on the empty list raises IndexError
                /\ coding_queue' = q
                /\ UNCHANGED coding_result
                /\ exc' = "IndexError" /\ stopped' = "419 pop" /\ msg' = shown
           [] stop = "419 set" /\ q # <<>> ->
                /\ coding_queue' = Tail(q)
                /\ UNCHANGED coding_result
                /\ exc' = "RerunException" /\ stopped' = stop /\ msg' = shown
           [] stop = "420" /\ q # <<>> ->
                /\ coding_queue' = Tail(q)
                /\ coding_result' = Head(q)
                /\ exc' = "RerunException" /\ stopped' = stop /\ msg' = shown
           [] stop \in {"421", "end"} /\ q # <<>> ->
                /\ coding_queue' = Tail(q)
                /\ coding_result' = Head(q)
                /\ exc' = (IF stop = "end" THEN "none" ELSE "RerunException")
                /\ stopped' = stop /\ msg' = "success"
      /\ UNCHANGED <<coded_data, fnvars>>

\* the fields the verification form lets the reviewer edit
FormFields == Range(COLUMNS) \ {"literature_type", "geographic_focus", "original_text"}

\* the default of r.get(f, default) where the form reads the pending row
FormDefault(f) ==
  CASE f \in {"inclusion_I1", "inclusion_I2", "inclusion_I3"} -> "NA"
    [] f \in {"exclusion_E1", "exclusion_E2", "explicit_definition", "typology_proposed",
              "inferred", "split_case"} -> "No"
    [] f = "unit_of_analysis" -> "Village/community"
    [] f = "scope_decision" -> "Include"
    [] f \in {"axis_A", "axis_B", "axis_C", "participation_level", "equity_level", "env_level"} -> "NA"
    [] f = "evidence_quality" -> "Moderate"
    [] OTHER -> ""

\* reviewer edits: the fields typed or selected anew (a selectbox offers only ENUMS values)
Edits ==
  { EmptyRow,
    [ scope_decision |-> "Exclude", evidence_quality |-> "High" ],
    [ scope_decision |-> "Include", axis_A |-> "A2 Co-managed", axis_A_anchor |-> "",
      equity_level |-> "2", equity_evidence |-> "NA", typology_proposed |-> "Yes", typology_details |-> "yes" ] }

\* the row built by the submit handler from the form and the pending row r
FormRow(r, edit) ==
  [ col \in Range(COLUMNS) |->
      IF col \in FormFields
      THEN IF col \in DOMAIN edit THEN edit[col] ELSE Get(r, col, FormDefault(col))
      ELSE Get(r, col, "") ]

\* variant: the form row is normalised and stored without apply_qc_rules
StoredRow_without_qc(r, edit) ==
  LET row == normalise_row(FormRow(r, edit))
  IN  [ col \in Range(COLUMNS) |-> Get(row, col, "") ]

\* the record the submit handler appends for the pending row r and the form's edits
StoredRow(r, edit) ==
  LET row == apply_qc_rules(normalise_row(FormRow(r, edit)))
  IN  [ col \in Range(COLUMNS) |-> Get(row, col, "") ]

\* the rows a start-coding run can put under review
DraftRows == UNION { Range(Drafts[rows]) : rows \in DOMAIN Drafts }

\* StoredRow on every row under review and every edit, tabulated once
Stored == [ p \in DraftRows \X Edits |-> StoredRow(p[1], p[2]) ] @@ <<>>

\* where a submit run can end: stopped by a rerun request at the access to
\* coded_data of line 516, at st.success of line 518, at the read of line 519
\* or at the write of coding_result (line 520, line 523 with an empty queue),
\* or ended by the RerunException that st.rerun() of line 521 or 525 raises
\* (a stop at st.balloons of line 524 leaves what st.rerun() leaves)
CommitStops == {"516", "518", "519", "520", "rerun"}

\* "Setuju & Simpan ke Sesi"
Commit(edit, stop) ==
  /\ coding_result # None
  /\ Len(coded_data) < MaxData
  /\ handler' = "commit"
  /\ stopped' = stop
  /\ exc' = "RerunException"
  /\ coded_data' = IF stop = "516" THEN coded_data
                   ELSE Append(coded_data, Stored[<<coding_result, edit>>])
  /\ msg' = IF stop \in {"516", "518"} THEN "none" ELSE "saved"
  /\ coding_queue' = IF stop \in {"520", "rerun"} /\ coding_queue # <<>>
                     THEN Tail(coding_queue) ELSE coding_queue
  /\ coding_result' = IF stop = "rerun"
                      THEN IF coding_queue # <<>> THEN Head(coding_queue) ELSE None
                      ELSE coding_result
  /\ result' = NoResult
  /\ UNCHANGED fnvars

\* where a clear run can end: stopped by a rerun request at the write of
\* line 544, 545 or 546 or at st.success of line 547, or ended by the
\* RerunException that st.rerun() of line 548 raises
ClearStops == {"544", "545", "546", "547", "rerun"}

\* "Bersihkan Data Sesi", offered while coded_data is not empty
Clear(stop) ==
  /\ coded_data # <<>>
  /\ handler' = "clear"
  /\ stopped' = stop
  /\ exc' = "RerunException"
  /\ coded_data' = IF stop = "544" THEN coded_data ELSE <<>>
  /\ coding_queue' = IF stop \in {"544", "545"} THEN coding_queue ELSE <<>>
  /\ coding_result' = IF stop \in {"544", "545", "546"} THEN coding_result ELSE None
  /\ msg' = IF stop = "rerun" THEN "cleared" ELSE "none"
  /\ result' = NoResult
  /\ UNCHANGED fnvars

Init ==
  /\ arg = EmptyRow
  /\ given = EmptyRow
  /\ ret = EmptyRow
  /\ fn = "none"
  /\ InitSession

Next ==
  \/ \E stop \in NoTextStops : StartCodingNoText(stop)
  \/ \E warned \in BOOLEAN : StartCodingStopped(warned)
  \/ \E last \in ProducerErrors, stop \in NoResultStops : StartCodingNoResult(last, stop)
  \/ \E rows \in DraftInputs, warned \in BOOLEAN, stop \in StartStops :
        StartCoding(rows, warned, stop)
  \/ \E edit \in Edits, stop \in CommitStops : Commit(edit, stop)
  \/ \E stop \in ClearStops : Clear(stop)

Spec == Init /\ [][Next]_vars

(***************************************************************************)
(* Properties of normalise_row and apply_qc_rules (checked under SpecFn)   *)
(***************************************************************************)
Outcomes == {"participation", "equity", "env"}
Axes == {"A", "B", "C"}
AxisFields == {"axis_A", "axis_B", "axis_C"}
LevelFields == {"participation_level", "equity_level", "env_level"}

Allowed(f) == Range(ENUMS[f])

IsComplete(row) == DOMAIN row = Range(COLUMNS)
EnumValid(row) == \A f \in DOMAIN ENUMS : f \in DOMAIN row /\ row[f] \in Allowed(f)
ValidRecord(row) == IsComplete(row) /\ EnumValid(row)

StartsWith(s, p) == Len(p) <= Len(s) /\ SubSeq(s, 1, Len(p)) = p

\* C1: normalise_row returns, for every raw mapping, a record whose key set is
\* exactly COLUMNS and whose enumerated fields hold members of their allowed sets.
C1_Totality ==
  fn = "normalise_row" =>
     /\ DOMAIN ret = Range(COLUMNS)
     /\ \A f \in DOMAIN ENUMS : ret[f] \in Allowed(f)

\* a raw mapping with an unknown key, missing keys and an out-of-domain value was normalised
C1_Witness ==
  /\ fn = "normalise_row"
  /\ "confidence" \in DOMAIN given
  /\ Range(COLUMNS) \ DOMAIN given # {}
  /\ \E f \in (DOMAIN ENUMS) \cap (DOMAIN given) : given[f] \notin Allowed(f)

\* C2: an outcome level in {"1","2","3"} whose evidence is empty or equal to "NA"
\* (case-insensitively) is "NA" after apply_qc_rules, and the notes name the outcome.
C2_EvidenceGating ==
  fn = "apply_qc_rules" =>
     \A var \in Outcomes :
        ( /\ Get(given, var \o "_level", "") \in {"1", "2", "3"}
          /\ \/ Get(given, var \o "_evidence", "") = ""
             \/ Get(given, var \o "_evidence", "") \in {"NA", "Na", "nA", "na"} )
        => /\ ret[var \o "_level"] = "NA"
           /\ Contains("Auto-NA " \o var \o " (no evidence).", ret["notes"])

\* an Included record with equity level "2" and evidence "Na" was downgraded
C2_Witness ==
  /\ fn = "apply_qc_rules"
  /\ Get(given, "scope_decision", "") = "Include"
  /\ Get(given, "equity_level", "") = "2"
  /\ Get(given, "equity_evidence", "") = "Na"
  /\ ret["equity_level"] = "NA"

\* C3: after apply_qc_rules on a record with scope_decision "Exclude" the three
\* axes and the three outcome levels are "NA", evidence and anchors notwithstanding.
C3_ScopeCascade ==
  (fn = "apply_qc_rules" /\ Get(given, "scope_decision", "") = "Exclude") =>
     \A f \in AxisFields \cup LevelFields : ret[f] = "NA"

\* an Excluded record with a supported outcome level and an anchored axis was reset
C3_Witness ==
  /\ fn = "apply_qc_rules"
  /\ Get(given, "scope_decision", "") = "Exclude"
  /\ Get(given, "participation_level", "") = "3"
  /\ Get(given, "participation_evidence", "") = "quote p.4"
  /\ Get(given, "axis_B", "") = "B2 Nature-led"
  /\ Get(given, "axis_B_anchor", "") = "Fig. 2"
  /\ ret["participation_level"] = "NA"
  /\ ret["axis_B"] = "NA"

\* C4: apply_qc_rules maps a complete, enum-valid record to a complete,
\* enum-valid record, whichever rules fire.
C4_QcOutputValid ==
  (fn = "apply_qc_rules" /\ ValidRecord(given)) => ValidRecord(ret)

\* a valid record on which at least three notes were produced went through QC
C4_Witness ==
  /\ fn = "apply_qc_rules"
  /\ ValidRecord(given)
  /\ Len(QcNotes(given)) >= 3
  /\ ret # given

\* the domain defaults of the fallback policy, as the specification tabulates them
PolicyDefault(f) ==
  CASE f \in AxisFields \cup LevelFields -> {"NA"}
    [] f \in {"explicit_definition", "typology_proposed"} -> {"No"}
    [] f = "evidence_quality" -> {"Moderate"}
    [] f \in {"inferred", "split_case"} -> {"No"}
    [] f = "scope_decision" -> {"Include"}
    [] f = "unit_of_analysis" -> {"Village/community"}
    [] OTHER -> Allowed(f)

\* C5: normalise_row writes the domain default for every enumerated field whose
\* raw value is missing or out of domain, the default is an allowed value, a
\* missing free-text field becomes "", and a value that is present and in
\* domain (or free text) is kept.
C5_FallbackPolicy ==
  fn = "normalise_row" =>
     \A f \in Range(COLUMNS) :
        IF f \in DOMAIN ENUMS
        THEN IF Get(given, f, "") \in Allowed(f)
             THEN ret[f] = given[f]
             ELSE ret[f] \in PolicyDefault(f) /\ ret[f] \in Allowed(f)
        ELSE ret[f] = Get(given, f, "")

\* a raw mapping without evidence_quality and with an invalid scope_decision was defaulted
C5_Witness ==
  /\ fn = "normalise_row"
  /\ "evidence_quality" \notin DOMAIN given
  /\ Get(given, "scope_decision", "") = "exclude"
  /\ ret["evidence_quality"] = "Moderate"
  /\ ret["scope_decision"] = "Include"

\* the two markers of rule 2, in every mix of upper and lower case, are found in s
HasMarker(s) == Contains("not explicit", Lower(s)) \/ Contains("tidak eksplisit", Lower(s))

\* C6: typology_proposed "Yes" with details shorter than 40 characters or holding
\* a marker (case-insensitively) becomes "Partial", and the typology note is appended.
C6_TypologyRule ==
  (fn = "apply_qc_rules" /\ Get(given, "typology_proposed", "") = "Yes") =>
     LET td == Get(given, "typology_details", "")
     IN  (Len(td) < 40 \/ HasMarker(td)) =>
            /\ ret["typology_proposed"] = "Partial"
            /\ Contains("Typology set to Partial (criteria unclear).", ret["notes"])

\* every note a rule can produce, in rule order
AllNotes ==
  << "Auto-NA participation (no evidence).", "Auto-NA equity (no evidence).", "Auto-NA env (no evidence).",
     "Typology set to Partial (criteria unclear).",
     "Excluded (scope): axes & outcomes set to NA.",
     "Axis A lacks anchor.", "Axis B lacks anchor.", "Axis C lacks anchor." >>

InRuleOrder(ns) == ns = SelectSeq(AllNotes, LAMBDA n : n \in Range(ns))

\* C7 as stated, for complete and valid records: the notes after
\* apply_qc_rules start with the prior notes unchanged and end with the
\* triggered notes in rule order joined by "; "; without a triggered rule the
\* notes are unchanged.
C7_NotesKeepPrefix ==
  (fn = "apply_qc_rules" /\ ValidRecord(given)) =>
     LET old == Get(given, "notes", "")
         ns  == QcNotes(given)
         new == Join("; ", ns)
     IN  IF ns = <<>> THEN ret["notes"] = old
         ELSE /\ InRuleOrder(ns)
              /\ StartsWith(ret["notes"], old)
              /\ Len(ret["notes"]) >= Len(old) + Len(new)
              /\ SubSeq(ret["notes"], Len(ret["notes"]) - Len(new) + 1, Len(ret["notes"])) = new

\* C7 amended: with a triggered rule the notes are the prior notes, one space
\* if the prior notes are non-empty and the triggered notes in rule order
\* joined by "; ", the whole without its leading whitespace; prior notes that
\* do not start with whitespace are a prefix of the result; without a
\* triggered rule the notes are unchanged.
C7_NotesAppended ==
  fn = "apply_qc_rules" =>
     LET old == Get(given, "notes", "")
         ns  == QcNotes(given)
         new == Join("; ", ns)
     IN  IF ns = <<>> THEN ret["notes"] = old
         ELSE /\ InRuleOrder(ns)
              /\ ret["notes"] = LStrip(old \o (IF old # "" THEN " " ELSE "") \o new)
              /\ (old = LStrip(old)) => StartsWith(ret["notes"], old)

\* prior notes and notes of rules 1, 2 and 4 were joined
C7_Witness ==
  /\ fn = "apply_qc_rules"
  /\ Get(given, "notes", "") = "prior note"
  /\ Len(QcNotes(given)) >= 5
  /\ StartsWith(ret["notes"], "prior note Auto-NA participation (no evidence).; ")

\* C8: rule 4 rewrites no field and notes every substantive axis whose anchor
\* is empty; for a record with scope_decision "Include" the three axes after
\* apply_qc_rules equal the axes before.
C8_AnchorAnnotatesOnly ==
  (fn = "apply_qc_rules" /\ ValidRecord(given)) =>
     LET s3 == Rule3(Rule2(Rule1([ row |-> given, notes |-> <<>> ])))
     IN  /\ Rule4(s3).row = s3.row
         /\ \A ax \in Axes :
               (s3.row["axis_" \o ax] # "NA" /\ s3.row["axis_" \o ax \o "_anchor"] = "")
               => Contains("Axis " \o ax \o " lacks anchor.", ret["notes"])
         /\ given["scope_decision"] = "Include" => \A f \in AxisFields : ret[f] = given[f]

\* an Included record with a substantive axis_A and no anchor kept the axis and got the note
C8_Witness ==
  /\ fn = "apply_qc_rules"
  /\ ValidRecord(given)
  /\ given["scope_decision"] = "Include"
  /\ given["axis_A"] = "A1 State-led"
  /\ given["axis_A_anchor"] = ""
  /\ ret["axis_A"] = "A1 State-led"
  /\ Contains("Axis A lacks anchor.", ret["notes"])

\* a complete record, valid but for an evidence_quality that may be empty
ValidButQuality(row) ==
  /\ IsComplete(row)
  /\ \A f \in DOMAIN ENUMS : f # "evidence_quality" => row[f] \in Allowed(f)
  /\ row["evidence_quality"] \in Allowed("evidence_quality") \cup {""}

\* C9 as stated: Excluded and evidence_quality empty gives "Low"; Excluded with
\* a value keeps it; not Excluded never changes evidence_quality.
C9_QualityAsStated ==
  (fn = "apply_qc_rules" /\ ValidButQuality(given)) =>
     LET eq == Get(given, "evidence_quality", "")
     IN  IF Get(given, "scope_decision", "") = "Exclude"
         THEN IF eq = "" THEN ret["evidence_quality"] = "Low" ELSE ret["evidence_quality"] = eq
         ELSE ret["evidence_quality"] = eq

\* C9 amended: Excluded and evidence_quality empty gives "Low"; an allowed
\* value is kept whatever the scope (so Excluded with "High" is an output);
\* a value that is empty on a record not Excluded, or non-empty and not
\* allowed on any record, is replaced by "Moderate", never by "Low".
C9_QualityRule ==
  fn = "apply_qc_rules" =>
     LET eq == Get(given, "evidence_quality", "")
     IN  IF eq \in {"Low", "Moderate", "High"} THEN ret["evidence_quality"] = eq
         ELSE IF eq = "" /\ Get(given, "scope_decision", "") = "Exclude" THEN ret["evidence_quality"] = "Low"
         ELSE ret["evidence_quality"] = "Moderate"

\* an Excluded record with evidence_quality "High" came out Excluded with "High"
C9_Witness ==
  /\ fn = "apply_qc_rules"
  /\ Get(given, "scope_decision", "") = "Exclude"
  /\ Get(given, "evidence_quality", "") = "High"
  /\ ret["scope_decision"] = "Exclude"
  /\ ret["evidence_quality"] = "High"

(***************************************************************************)
(* Properties of the session handlers (checked under Spec)                 *)
(***************************************************************************)
\* C10: a start-coding run whose draft has zero rows and that no rerun request
\* stops ends without an error, with an empty queue, no pending record and the
\* dataset unchanged.
C10_EmptyDraftTolerated ==
  [][ ( /\ handler' = "start_coding"
        /\ result' = [ ok |-> TRUE, rows |-> <<>> ]
        /\ exc' # "RerunException" )
      => /\ exc' = "none"
         /\ coding_queue' = <<>>
         /\ coding_result' = None
         /\ coded_data' = coded_data ]_vars

\* an outcome level 1/2/3 is backed by evidence that is neither empty nor "NA"
EvidenceBacked(row) ==
  \A var \in Outcomes :
     row[var \o "_level"] \in {"1", "2", "3"} =>
        (row[var \o "_evidence"] # "" /\ Upper(row[var \o "_evidence"]) # "NA")

\* an Excluded row carries no axis and no outcome level
ExcludedIsBlank(row) ==
  row["scope_decision"] = "Exclude" => \A f \in AxisFields \cup LevelFields : row[f] = "NA"

\* C11: every record of the Coded Dataset is complete, enum-valid and
\* QC-consistent (no level 1/2/3 without evidence, Excluded records all "NA"),
\* whatever the reviewer edited before the commit.
C11_StoredRecordsConsistent ==
  \A i \in 1..Len(coded_data) :
     /\ ValidRecord(coded_data[i])
     /\ EvidenceBacked(coded_data[i])
     /\ ExcludedIsBlank(coded_data[i])

\* a record edited to equity level "2" with evidence "NA" and short typology
\* details was stored with both downgraded
C11_Witness ==
  /\ handler = "commit"
  /\ \E i \in 1..Len(coded_data) :
        /\ coded_data[i]["equity_evidence"] = "NA"
        /\ coded_data[i]["typology_details"] = "yes"
        /\ coded_data[i]["equity_level"] = "NA"
        /\ coded_data[i]["typology_proposed"] = "Partial"

\* C12: a commit that stores appends exactly one record and leaves the stored
\* records and their order unchanged; start-coding leaves the dataset
\* unchanged; only clear removes records, and a clear that resets the dataset
\* to empty resets the queue and the pending record with it.
C12_AppendOnly ==
  [][ /\ (handler' = "commit" /\ coded_data' # coded_data) =>
           /\ Len(coded_data') = Len(coded_data) + 1
           /\ SubSeq(coded_data', 1, Len(coded_data)) = coded_data
      /\ handler' = "start_coding" => coded_data' = coded_data
      /\ (handler' = "clear" /\ coded_data' # coded_data) =>
           (coded_data' = <<>> /\ coding_queue' = <<>> /\ coding_result' = None)
      /\ (\E i \in 1..Len(coded_data) : i > Len(coded_data') \/ coded_data'[i] # coded_data[i])
           => handler' = "clear" ]_vars

\* C13: a commit without edits stores the pending record as it is, notes included.
C13_VerbatimCommit ==
  [][ ((\E stop \in CommitStops : Commit(EmptyRow, stop)) /\ coded_data' # coded_data)
      => coded_data' = Append(coded_data, coding_result) ]_vars

\* the row was stored by a commit of the pending row r under one of the edits
CommittedFrom(row, r) == \E edit \in Edits : row = StoredRow(r, edit)

\* C14: a start-coding run with n >= 1 rows that ends without exception makes
\* the first row the pending record and queues the other n-1 in order; each
\* commit that stores a record stores the pending one, makes the head of the
\* queue the pending record and removes it from the queue (nothing pending
\* after the last), so that n commits append the n rows in producer order,
\* none skipped or stored twice.
C14_ReviewOrder ==
  [][ /\ (handler' = "start_coding" /\ result'.ok /\ exc' = "none") =>
           LET drafts == BuildQueue(result'.rows, Article)
           IN  /\ drafts # <<>>
               /\ coding_result' = Head(drafts)
               /\ coding_queue' = Tail(drafts)
      /\ (handler' = "commit" /\ coded_data' # coded_data) =>
           /\ CommittedFrom(coded_data'[Len(coded_data')], coding_result)
           /\ IF coding_queue # <<>>
              THEN coding_result' = Head(coding_queue) /\ coding_queue' = Tail(coding_queue)
              ELSE coding_result' = None /\ coding_queue' = <<>> ]_vars

\* evidence_quality as normalise_row leaves it
NormalisedQuality(row) ==
  IF Get(row, "evidence_quality", "") \in {"Low", "Moderate", "High"}
  THEN row["evidence_quality"] ELSE "Moderate"

\* C15: in the pipeline QC never changes evidence_quality: every row a
\* start-coding run puts in the queue or makes the pending record holds the
\* normalised evidence_quality of its raw row ("Moderate" when that is missing
\* or invalid, also on an Excluded row), and a stored record holds the
\* evidence_quality the form submitted.
C15_QualityUntouchedInPipeline ==
  [][ /\ (handler' = "start_coding" /\ result'.ok) =>
           LET rows == result'.rows
               n == Len(rows)
               m == Len(coding_queue')
           IN  /\ stopped' # "418" =>
                     \A j \in 1..m :
                        coding_queue'[j]["evidence_quality"] = NormalisedQuality(rows[n - m + j])
               /\ (stopped' \in {"420", "421", "end"}) =>
                     coding_result'["evidence_quality"] = NormalisedQuality(rows[1])
      /\ (handler' = "commit" /\ coded_data' # coded_data) =>
           \E edit \in Edits :
              /\ coded_data'[Len(coded_data')] = Stored[<<coding_result, edit>>]
              /\ coded_data'[Len(coded_data')]["evidence_quality"]
                    = FormRow(coding_result, edit)["evidence_quality"] ]_vars

\* a draft whose first row is the Excluded raw row without evidence_quality
\* was queued by a start-coding run that ran to its end: the pending record is
\* Excluded, carries the note of the scope cascade and holds "Moderate"
C15_Witness ==
  /\ handler = "start_coding"
  /\ stopped = "end"
  /\ result.ok
  /\ result.rows # <<>>
  /\ result.rows[1] = RowExcludedMissing
  /\ "evidence_quality" \notin DOMAIN result.rows[1]
  /\ coding_result # None
  /\ coding_result["scope_decision"] = "Exclude"
  /\ coding_result["participation_level"] = "NA"
  /\ coding_result["evidence_quality"] = "Moderate"

====
